---- MODULE Spec2Model ----
(***************************************************************************)
(* Nephos task lifecycle engine: the start-up pipeline with its            *)
(* single-instance guard (nephos/nephos.py) and the upload dispatcher      *)
(* with its shared thread pool (nephos/uploader/uploader.py).              *)
(***************************************************************************)
EXTENDS Integers, Sequences, FiniteSets, TLC

\* ---------------------------------------------------------------- bounds
MaxPaths == 3
BatchLen == 5
MaxCPU == 2
MaxFirings == 2
NumProcs == 2
NumPlatforms == 2
LivePaths == 2

Paths == 1..MaxPaths
Slots == 1..MaxFirings
Procs == 1..NumProcs
Platforms == 1..NumPlatforms
Statuses == {"processed", "uploading"}

VARIABLES
    tasks,        \* the tasks table: rows in insertion order
    folders,      \* store_path folders present on the filesystem
    poolSize,     \* number of threads of POOL, cpu_count() at import
    cyc,          \* per scheduler firing of run_uploader: the begin_uploads frame
    inserted,     \* history: store_paths the recorder has inserted
    confirmed,    \* history: store_paths whose platform upload confirmed success
    rowGone,      \* history: store_paths whose row was deleted
    folderGone,   \* history: store_paths whose folder was deleted
    healthy,      \* the store is reachable and the platform accepts uploads, for good
    recorder,     \* what the recorder saw of its duplicate insertions
    failedUploads, \* store_paths whose latest upload attempt failed
    proc,         \* per process: position in the start-up pipeline
    lockOwner     \* pid recorded in the lock resource, 0 when none

dispVars == <<tasks, folders, poolSize, cyc, inserted, confirmed, rowGone, folderGone,
              healthy, recorder, failedUploads>>
procVars == <<proc, lockOwner>>
vars == <<tasks, folders, poolSize, cyc, inserted, confirmed, rowGone, folderGone,
          healthy, recorder, failedUploads, proc, lockOwner>>

\* ------------------------------------------------------------ Task Store
\* the share list the recorder stores with folder p
ShareListOf(p) == IF p % 2 = 1 THEN <<>> ELSE <<"entity">>

RowPaths(tbl) == {tbl[i].store_path : i \in DOMAIN tbl}
Rows(tbl) == {tbl[i] : i \in DOMAIN tbl}

IsProcessed(r) == r.status = "processed"

\* SELECT * FROM tasks
GetFoldersNoWhere(tbl) == tbl

\* CMD_GET_FOLDERS: SELECT * FROM tasks WHERE status = "processed"
GetFolders(tbl) == SelectSeq(tbl, IsProcessed)

\* DELETE FROM tasks
RmTaskNoWhere(tbl, folder) == <<>>

\* the DELETE is never committed
RmTaskNothing(tbl, folder) == tbl

\* CMD_RM_TASK: DELETE FROM tasks WHERE store_path = ?
RmTask(tbl, folder) ==
    LET Keep(r) == r.store_path /= folder IN SelectSeq(tbl, Keep)

\* shutil.rmtree of the directory that holds the folders
RmtreeParent(fs, folder) == {}

\* shutil.rmtree(folder)
Rmtree(fs, folder) == fs \ {folder}

\* ------------------------------------------------------------ thread pool
\* upload_pool with every snapshot row appended twice
UploadPoolTwice(tasks_list) ==
    [i \in 1..(2 * Len(tasks_list)) |->
        <<tasks_list[(i + 1) \div 2].store_path, tasks_list[(i + 1) \div 2].share_list>>]

\* upload_pool of begin_uploads: one (store_path, share_list) per snapshot row
UploadPool(tasks_list) ==
    [i \in 1..Len(tasks_list) |-> <<tasks_list[i].store_path, tasks_list[i].share_list>>]

\* Pool._map_async: chunksize, extra = divmod(len, len(pool) * 4); if extra: chunksize += 1
ChunkSize(len, threads) ==
    IF len % (threads * 4) = 0 THEN len \div (threads * 4) ELSE len \div (threads * 4) + 1

\* no batch of the model is longer
MaxCalls == 2 * (MaxPaths + BatchLen)

Terminal == {"ok", "failed", "raised", "skipped"}
Executing == {"upload", "remove_db", "remove_fs"}

ChunkOf(s, i) == (i - 1) \div ChunkSize(Len(cyc[s].w), poolSize)
FirstOfChunk(s, i) == ChunkOf(s, i) * ChunkSize(Len(cyc[s].w), poolSize) + 1
InChunk(s, k) == {i \in DOMAIN cyc[s].w : ChunkOf(s, i) = k}

\* a pool thread holds a chunk from its first call until its last call ended
ChunkBusy(s, k) ==
    /\ \E i \in InChunk(s, k) : cyc[s].w[i] /= "queued"
    /\ \E i \in InChunk(s, k) : cyc[s].w[i] \notin Terminal

Chunks(s) == {ChunkOf(s, i) : i \in DOMAIN cyc[s].w}

BusyThreads ==
    Cardinality(UNION {{<<s, k>> : k \in {c \in Chunks(s) : ChunkBusy(s, c)}} : s \in Slots})

\* DBHandler.connect() as a context manager: entering the with block opens a
\* connection for its owner, leaving it on any path closes that connection
Open(held, who) == held \cup {who}

\* a with block whose exit leaves the connection open
CloseNothing(held, who) == held

Close(held, who) == held \ {who}

\* what a listing returned, set against the table it was read from
NoAudit == [gone |-> {}, missed |-> {}, other |-> {}]

IdleFrame == [pc |-> "idle", tasks_list |-> <<>>, upload_pool |-> <<>>, w |-> <<>>,
              exit |-> "none", warned |-> FALSE, touched |-> {}, job |-> "none",
              unattempted |-> {}, unfinished |-> {}, error |-> "none",
              audit |-> NoAudit, conns |-> {}]

\* ------------------------------------------------------------- scheduler
\* jobs of Uploader._add_to_scheduler
Jobs == {"run_uploader"}

Active(s) == cyc[s].pc /= "idle"

FreeSlot(s) == ~Active(s) /\ \A t \in Slots : t < s => Active(t)

\* the process that owns the task store has finished start-up
Running == \E p \in Procs : proc[p].pc = "running"

\* a Scheduler that drops a job once an invocation of it has raised
FireUnlessRaised(j, s) ==
    /\ Running
    /\ FreeSlot(s)
    /\ \A t \in Slots : Active(t) => cyc[t].job /= j
    /\ \A t \in Slots : cyc[t].exit /= "raised"
    /\ cyc' = [cyc EXCEPT ![s] = [IdleFrame EXCEPT !.pc = "connect", !.job = j]]
    /\ UNCHANGED <<tasks, folders, poolSize, healthy, recorder, failedUploads, inserted, confirmed, rowGone, folderGone>>
    /\ UNCHANGED procVars

\* the Scheduler fires the job although an invocation of it is still running
FireOverlapping(j, s) ==
    /\ Running
    /\ FreeSlot(s)
    /\ cyc' = [cyc EXCEPT ![s] = [IdleFrame EXCEPT !.pc = "connect", !.job = j]]
    /\ UNCHANGED <<tasks, folders, poolSize, healthy, recorder, failedUploads, inserted, confirmed, rowGone, folderGone>>
    /\ UNCHANGED procVars

\* the Scheduler fires job j: its callback begin_uploads(client, up_func) starts
Fire(j, s) ==
    /\ Running
    /\ FreeSlot(s)
    /\ \A t \in Slots : Active(t) => cyc[t].job /= j
    /\ cyc' = [cyc EXCEPT ![s] = [IdleFrame EXCEPT !.pc = "connect", !.job = j]]
    /\ UNCHANGED <<tasks, folders, poolSize, healthy, recorder, failedUploads, inserted, confirmed, rowGone, folderGone>>
    /\ UNCHANGED procVars

\* ------------------------------------------------------------- recorder
NoDuplicates == [refused |-> FALSE, changed |-> FALSE]

\* the recording pipeline produces a folder and inserts its task
Insert(p, st) ==
    /\ Running
    /\ p \notin inserted
    /\ p = Cardinality(inserted) + 1
    /\ tasks' = Append(tasks, [store_path |-> p, share_list |-> ShareListOf(p),
                               status |-> st])
    /\ folders' = folders \cup {p}
    /\ inserted' = inserted \cup {p}
    /\ UNCHANGED <<poolSize, healthy, recorder, failedUploads, cyc, confirmed, rowGone, folderGone>>
    /\ UNCHANGED procVars

\* a tasks table without its key on store_path
InsertTaskNoKey(tbl, row) == Append(tbl, row)

\* insertTask: store_path is the primary key, a second row for it is refused
InsertTask(tbl, row) ==
    IF row.store_path \in RowPaths(tbl) THEN tbl ELSE Append(tbl, row)

\* the recorder inserts a store_path that already has a row: DuplicateTask
InsertDuplicate(p, st) ==
    /\ Running
    /\ p \in RowPaths(tasks)
    /\ tasks' = InsertTask(tasks, [store_path |-> p, share_list |-> <<"other">>,
                                   status |-> st])
    /\ recorder' = [refused |-> recorder.refused \/ tasks' = tasks,
                    changed |-> recorder.changed \/ tasks' /= tasks]
    /\ UNCHANGED <<folders, poolSize, healthy, failedUploads, cyc, inserted, confirmed, rowGone, folderGone>>
    /\ UNCHANGED procVars

\* ------------------------------------------------------------ begin_uploads
\* what a step of the frame in slot s did to the store and the filesystem
Effects(s) ==
    /\ rowGone' = rowGone \cup (RowPaths(tasks) \ RowPaths(tasks'))
    /\ folderGone' = folderGone \cup (folders \ folders')

Touched(s) ==
    cyc[s].touched \cup (RowPaths(tasks) \ RowPaths(tasks')) \cup (folders \ folders')
        \cup {q \in RowPaths(tasks) \cap RowPaths(tasks') :
                \E i \in DOMAIN tasks, k \in DOMAIN tasks' :
                    /\ tasks[i].store_path = q /\ tasks'[k].store_path = q
                    /\ tasks[i] /= tasks'[k]}

\* the rows a listing returned that an earlier removal had deleted, the processed
\* rows it left out, and the rows it returned that are not processed rows
Audit(list) ==
    [gone |-> RowPaths(list) \cap (rowGone \cup folderGone),
     missed |-> {r.store_path : r \in {x \in Rows(tasks) : x.status = "processed"}}
                    \ RowPaths(list),
     other |-> {r.store_path : r \in {x \in Rows(list) :
                                        x \notin Rows(tasks) \/ x.status /= "processed"}}]

\* CMD_SET_UPLOADING: UPDATE tasks SET status = "uploading" WHERE store_path = ?
SetUploading(tbl, paths) ==
    [k \in DOMAIN tbl |-> IF tbl[k].store_path \in paths
                          THEN [tbl[k] EXCEPT !.status = "uploading"] ELSE tbl[k]]

\* a listing that also executes CMD_SET_UPLOADING for every row it returned
SnapshotAndMark(s) ==
    /\ cyc[s].pc = "connect"
    /\ tasks' = SetUploading(tasks, RowPaths(GetFolders(tasks)))
    /\ folders' = folders
    /\ Effects(s)
    /\ cyc' = [cyc EXCEPT ![s].pc = "fetched", ![s].tasks_list = GetFolders(tasks),
                          ![s].audit = Audit(GetFolders(tasks)),
                          ![s].touched = Touched(s),
                          ![s].conns = Close(Open(@, <<"dispatcher", 0>>), <<"dispatcher", 0>>)]
    /\ UNCHANGED <<poolSize, healthy, recorder, failedUploads, inserted, confirmed>>
    /\ UNCHANGED procVars

\* with DBHandler.connect() as db_cur: execute(CMD_GET_FOLDERS); fetchall()
Snapshot(s) ==
    /\ cyc[s].pc = "connect"
    /\ tasks' = tasks
    /\ folders' = folders
    /\ Effects(s)
    /\ cyc' = [cyc EXCEPT ![s].pc = "fetched", ![s].tasks_list = GetFolders(tasks),
                          ![s].audit = Audit(GetFolders(tasks)),
                          ![s].touched = Touched(s),
                          ![s].conns = Close(Open(@, <<"dispatcher", 0>>), <<"dispatcher", 0>>)]
    /\ UNCHANGED <<poolSize, healthy, recorder, failedUploads, inserted, confirmed>>
    /\ UNCHANGED procVars

\* except DBException without the return: tasks_list is unbound at the loop below
ConnectFailNoReturn(s) ==
    /\ cyc[s].pc = "connect"
    /\ tasks' = tasks
    /\ folders' = folders
    /\ Effects(s)
    /\ cyc' = [cyc EXCEPT ![s].pc = "idle", ![s].warned = TRUE, ![s].exit = "raised",
                          ![s].error = "UnboundLocalError", ![s].touched = Touched(s),
                          ![s].conns = Close(@, <<"dispatcher", 0>>)]
    /\ UNCHANGED <<poolSize, healthy, recorder, failedUploads, inserted, confirmed>>
    /\ UNCHANGED procVars

\* except DBException as error: LOG.warning(...); LOG.debug(error); return
ConnectFail(s) ==
    /\ cyc[s].pc = "connect"
    /\ tasks' = tasks
    /\ folders' = folders
    /\ Effects(s)
    /\ cyc' = [cyc EXCEPT ![s].pc = "idle", ![s].warned = TRUE, ![s].exit = "normal",
                          ![s].touched = Touched(s),
                          ![s].conns = Close(@, <<"dispatcher", 0>>)]
    /\ UNCHANGED <<poolSize, healthy, recorder, failedUploads, inserted, confirmed>>
    /\ UNCHANGED procVars

\* upload_pool is built; if upload_pool: POOL.starmap(partial(up_func, client), upload_pool)
Dispatch(s) ==
    /\ cyc[s].pc = "fetched"
    /\ LET pool == UploadPool(cyc[s].tasks_list) IN
        cyc' = [cyc EXCEPT
                  ![s] = IF pool /= <<>>
                         THEN [cyc[s] EXCEPT !.upload_pool = pool,
                                             !.w = [i \in DOMAIN pool |-> "queued"],
                                             !.pc = "starmap"]
                         ELSE [IdleFrame EXCEPT !.exit = "normal", !.job = cyc[s].job]]
    /\ UNCHANGED <<tasks, folders, poolSize, healthy, recorder, failedUploads, inserted, confirmed, rowGone, folderGone>>
    /\ UNCHANGED procVars

\* ------------------------------------------------------------ pool workers
PathOf(s, i) == cyc[s].upload_pool[i][1]

\* MapResult keeps the first error only
FirstError(s, e) == IF cyc[s].error = "none" THEN e ELSE cyc[s].error

\* the call of task i raised: starmapstar drops the rest of its chunk
Raised(s, i) ==
    [j \in DOMAIN cyc[s].w |->
        IF j = i THEN "raised"
        ELSE IF j > i /\ ChunkOf(s, j) = ChunkOf(s, i) THEN "skipped"
        ELSE cyc[s].w[j]]

\* a pool that starts a thread for every call handed to it
StartCallUnbounded(s, i) ==
    /\ cyc[s].pc = "starmap"
    /\ i \in DOMAIN cyc[s].w
    /\ cyc[s].w[i] = "queued"
    /\ IF i = FirstOfChunk(s, i)
       THEN \A j \in DOMAIN cyc[s].w :
                (j < i /\ j = FirstOfChunk(s, j)) => cyc[s].w[j] /= "queued"
       ELSE cyc[s].w[i - 1] \in {"ok", "failed"}
    /\ cyc' = [cyc EXCEPT ![s].w[i] = "upload"]
    /\ UNCHANGED <<tasks, folders, poolSize, healthy, recorder, failedUploads, inserted, confirmed, rowGone, folderGone>>
    /\ UNCHANGED procVars

\* a pool thread calls up_func(folder, share_list, client=client) for task i
StartCall(s, i) ==
    /\ cyc[s].pc = "starmap"
    /\ i \in DOMAIN cyc[s].w
    /\ cyc[s].w[i] = "queued"
    /\ IF i = FirstOfChunk(s, i)
       THEN /\ BusyThreads < poolSize
            /\ \A j \in DOMAIN cyc[s].w :
                  (j < i /\ j = FirstOfChunk(s, j)) => cyc[s].w[j] /= "queued"
       ELSE cyc[s].w[i - 1] \in {"ok", "failed"}
    /\ cyc' = [cyc EXCEPT ![s].w[i] = "upload"]
    /\ UNCHANGED <<tasks, folders, poolSize, healthy, recorder, failedUploads, inserted, confirmed, rowGone, folderGone>>
    /\ UNCHANGED procVars

\* the platform client confirms the upload; _upload goes on to _remove(folder)
UploadOk(s, i) ==
    /\ cyc[s].pc = "starmap"
    /\ i \in DOMAIN cyc[s].w
    /\ cyc[s].w[i] = "upload"
    /\ confirmed' = confirmed \cup {PathOf(s, i)}
    /\ failedUploads' = failedUploads \ {PathOf(s, i)}
    /\ cyc' = [cyc EXCEPT ![s].w[i] = "remove_db"]
    /\ UNCHANGED <<tasks, folders, poolSize, healthy, recorder, inserted, rowGone, folderGone>>
    /\ UNCHANGED procVars

\* the upload failed and _upload returns without cleaning up
UploadFails(s, i) ==
    /\ cyc[s].pc = "starmap"
    /\ i \in DOMAIN cyc[s].w
    /\ cyc[s].w[i] = "upload"
    /\ cyc' = [cyc EXCEPT ![s].w[i] = "failed"]
    /\ failedUploads' = failedUploads \cup {PathOf(s, i)}
    /\ UNCHANGED <<tasks, folders, poolSize, healthy, recorder, inserted, confirmed, rowGone, folderGone>>
    /\ UNCHANGED procVars

\* the upload failed and _upload lets the platform error out
UploadRaises(s, i) ==
    /\ cyc[s].pc = "starmap"
    /\ i \in DOMAIN cyc[s].w
    /\ cyc[s].w[i] = "upload"
    /\ cyc' = [cyc EXCEPT ![s].w = Raised(s, i), ![s].error = FirstError(s, "UploadError")]
    /\ failedUploads' = failedUploads \cup {PathOf(s, i)}
    /\ UNCHANGED <<tasks, folders, poolSize, healthy, recorder, inserted, confirmed, rowGone, folderGone>>
    /\ UNCHANGED procVars

\* _remove: with DBHandler.connect() as db_cur: db_cur.execute(CMD_RM_TASK, (folder,))
RemoveRow(s, i) ==
    /\ cyc[s].pc = "starmap"
    /\ i \in DOMAIN cyc[s].w
    /\ cyc[s].w[i] = "remove_db"
    /\ tasks' = RmTask(tasks, PathOf(s, i))
    /\ folders' = folders
    /\ Effects(s)
    /\ cyc' = [cyc EXCEPT ![s].w[i] = "remove_fs", ![s].touched = Touched(s),
                          ![s].conns = Close(Open(@, <<"worker", i>>), <<"worker", i>>)]
    /\ UNCHANGED <<poolSize, healthy, recorder, failedUploads, inserted, confirmed>>
    /\ UNCHANGED procVars


\* _remove catching the DBException of connect() and going on to rmtree
RemoveConnectFailSwallowed(s, i) ==
    /\ cyc[s].pc = "starmap"
    /\ i \in DOMAIN cyc[s].w
    /\ cyc[s].w[i] = "remove_db"
    /\ cyc' = [cyc EXCEPT ![s].w[i] = "remove_fs"]
    /\ UNCHANGED <<tasks, folders, poolSize, healthy, recorder, failedUploads, inserted, confirmed, rowGone, folderGone>>
    /\ UNCHANGED procVars

\* _remove: DBHandler.connect() raises DBException, nothing in _remove catches it
RemoveConnectFail(s, i) ==
    /\ cyc[s].pc = "starmap"
    /\ i \in DOMAIN cyc[s].w
    /\ cyc[s].w[i] = "remove_db"
    /\ cyc' = [cyc EXCEPT ![s].w = Raised(s, i), ![s].error = FirstError(s, "DBException")]
    /\ UNCHANGED <<tasks, folders, poolSize, healthy, recorder, failedUploads, inserted, confirmed, rowGone, folderGone>>
    /\ UNCHANGED procVars

\* _remove: shutil.rmtree(folder), which raises when the folder is not there
RemoveFolder(s, i) ==
    /\ cyc[s].pc = "starmap"
    /\ i \in DOMAIN cyc[s].w
    /\ cyc[s].w[i] = "remove_fs"
    /\ tasks' = tasks
    /\ folders' = Rmtree(folders, PathOf(s, i))
    /\ Effects(s)
    /\ cyc' = [cyc EXCEPT ![s].w = IF PathOf(s, i) \in folders
                                     THEN [cyc[s].w EXCEPT ![i] = "ok"]
                                     ELSE Raised(s, i),
                          ![s].error = IF PathOf(s, i) \in folders THEN cyc[s].error
                                       ELSE FirstError(s, "FileNotFoundError"),
                          ![s].touched = Touched(s)]
    /\ UNCHANGED <<poolSize, healthy, recorder, failedUploads, inserted, confirmed>>
    /\ UNCHANGED procVars

\* tasks of the batch whose call was never made, and those still being run
Unattempted(s) == {i \in DOMAIN cyc[s].w : cyc[s].w[i] \in {"queued", "skipped"}}
Unfinished(s) == {i \in DOMAIN cyc[s].w : cyc[s].w[i] \in Executing}

Returned(s, how) ==
    [IdleFrame EXCEPT !.exit = how, !.job = cyc[s].job, !.error = cyc[s].error,
                      !.unattempted = {PathOf(s, i) : i \in Unattempted(s)},
                      !.unfinished = {PathOf(s, i) : i \in Unfinished(s)}]

\* starmap returns, or re-raises the first error, only once every chunk is done
StarmapReturn(s) ==
    /\ cyc[s].pc = "starmap"
    /\ \A k \in Chunks(s) : \E i \in InChunk(s, k) : cyc[s].w[i] /= "queued"
    /\ \A k \in Chunks(s) : ~ChunkBusy(s, k)
    /\ cyc' = [cyc EXCEPT
                 ![s] = Returned(s, IF \E i \in DOMAIN cyc[s].w : cyc[s].w[i] = "raised"
                                    THEN "raised" ELSE "normal")]
    /\ UNCHANGED <<tasks, folders, poolSize, healthy, recorder, failedUploads, inserted, confirmed, rowGone, folderGone>>
    /\ UNCHANGED procVars

\* ------------------------------------------------------------- start-up
\* Nephos.__init__ in order; the last three only when first_time() was true
InitSteps(first) ==
    <<"first_time", "Config", "load_config", "initialise", "DBHandler", "Scheduler",
      "ChannelHandler", "JobHandler", "Maintenance">>
    \o (IF first THEN <<"DBHandler.first_time", "init_jobs_db", "add_maintenance_to_scheduler">>
        ELSE <<>>)

\* sys.exit(-1) as the parent process sees it
ExitStatus(code) == code % 256

Alive(q) == q \in Procs /\ proc[q].pc \notin {"exited", "dead"}

LockFree == lockOwner = 0 \/ ~Alive(lockOwner)

\* _ = SingleInstance() succeeds: the lock is free or its recorded owner is dead
Acquire(p) ==
    /\ proc[p].pc = "import"
    /\ LockFree
    /\ lockOwner' = p
    /\ proc' = [proc EXCEPT ![p].pc = "init", ![p].guard = "held"]
    /\ UNCHANGED dispVars

\* except SingleInstanceException: the error is logged and start-up goes on
GuardFailNoExit(p) ==
    /\ proc[p].pc = "import"
    /\ ~LockFree
    /\ proc' = [proc EXCEPT ![p].pc = "init", ![p].guard = "failed",
                            ![p].blockedByLive = Alive(lockOwner)]
    /\ UNCHANGED lockOwner
    /\ UNCHANGED dispVars

\* except SingleInstanceException as err: LOG.error(err); sys.exit(-1)
GuardFail(p) ==
    /\ proc[p].pc = "import"
    /\ ~LockFree
    /\ proc' = [proc EXCEPT ![p].pc = "exited", ![p].guard = "failed",
                            ![p].status = ExitStatus(-1),
                            ![p].blockedByLive = Alive(lockOwner)]
    /\ UNCHANGED lockOwner
    /\ UNCHANGED dispVars

\* the guard is taken inside __init__, after the subsystems were set up
InitStepBeforeGuard(p, first) ==
    /\ proc[p].pc \in {"import", "init"}
    /\ proc[p].log = <<>> \/ first = proc[p].first
    /\ Len(proc[p].log) < Len(InitSteps(first))
    /\ proc' = [proc EXCEPT ![p].first = first,
                            ![p].log = Append(@, InitSteps(first)[Len(@) + 1])]
    /\ UNCHANGED lockOwner
    /\ UNCHANGED dispVars

\* one statement of Nephos.__init__; first is what first_time() returned
InitStep(p, first) ==
    /\ proc[p].pc = "init"
    /\ proc[p].log = <<>> \/ first = proc[p].first
    /\ Len(proc[p].log) < Len(InitSteps(first))
    /\ proc' = [proc EXCEPT ![p].first = first,
                            ![p].log = Append(@, InitSteps(first)[Len(@) + 1])]
    /\ UNCHANGED lockOwner
    /\ UNCHANGED dispVars

\* Nephos.start: self.Scheduler.start()
Start(p) ==
    /\ proc[p].pc = "init"
    /\ proc[p].log = InitSteps(proc[p].first)
    /\ proc' = [proc EXCEPT ![p].pc = "running", ![p].log = Append(@, "Scheduler.start")]
    /\ UNCHANGED lockOwner
    /\ UNCHANGED dispVars

\* the process dies without releasing the lock: its pid stays recorded
Crash(p) ==
    /\ proc[p].pc \in {"init", "running"}
    /\ proc' = [proc EXCEPT ![p].pc = "dead"]
    /\ UNCHANGED lockOwner
    /\ UNCHANGED dispVars

\* normal exit: the lock is released
Shutdown(p) ==
    /\ proc[p].pc = "running"
    /\ proc' = [proc EXCEPT ![p].pc = "exited", ![p].status = 0]
    /\ lockOwner' = IF lockOwner = p THEN 0 ELSE lockOwner
    /\ UNCHANGED dispVars

FreshProc == [pc |-> "import", guard |-> "pending", first |-> FALSE, log |-> <<>>,
              status |-> 0, blockedByLive |-> FALSE,
              registry |-> {}, built |-> [pl \in Platforms |-> "none"]]

\* the job names an Uploader registers: jobs = ["run_uploader"], whatever the platform
JobNames(pl) == {"run_uploader"}

\* Scheduler registration: a name that is already registered is refused (DuplicateJob)
Registered(reg) == {e[1] : e \in reg}

AddJobs(reg, names, pl) ==
    IF names \cap Registered(reg) /= {} THEN reg ELSE reg \cup {<<n, pl>> : n \in names}

\* Uploader.__init__(scheduler) of platform pl: _add_to_scheduler registers its jobs
Construct(p, pl) ==
    /\ proc[p].pc = "init"
    /\ proc[p].log = InitSteps(proc[p].first)
    /\ proc[p].built[pl] = "none"
    /\ proc' = [proc EXCEPT
                  ![p].registry = AddJobs(@, JobNames(pl), pl),
                  ![p].built[pl] = IF JobNames(pl) \cap Registered(proc[p].registry) /= {}
                                   THEN "DuplicateJob" ELSE "ok"]
    /\ UNCHANGED lockOwner
    /\ UNCHANGED dispVars

\* ------------------------------------------------------- specifications
InitDisp ==
    /\ healthy = FALSE
    /\ failedUploads = {}
    /\ recorder = NoDuplicates
    /\ tasks = <<>>
    /\ folders = {}
    /\ cyc = [s \in Slots |-> IdleFrame]
    /\ inserted = {}
    /\ confirmed = {}
    /\ rowGone = {}
    /\ folderGone = {}

\* the dispatcher in the process that won the guard and was started
Init ==
    /\ InitDisp
    /\ poolSize \in 1..MaxCPU
    /\ lockOwner = 1
    /\ proc = [p \in Procs |->
                IF p = 1
                THEN [FreshProc EXCEPT !.pc = "running", !.guard = "held",
                                       !.log = Append(InitSteps(FALSE), "Scheduler.start"),
                                       !.registry = {<<j, 1>> : j \in Jobs},
                                       !.built[1] = "ok"]
                ELSE [FreshProc EXCEPT !.pc = "exited", !.guard = "failed",
                                       !.status = ExitStatus(-1)]]

Next ==
    \/ \E j \in Jobs, s \in Slots : Fire(j, s)
    \/ \E p \in Paths, st \in Statuses : Insert(p, st)
    \/ \E p \in Paths, st \in Statuses : InsertDuplicate(p, st)
    \/ \E s \in Slots : Snapshot(s)
    \/ \E s \in Slots : ConnectFail(s)
    \/ \E s \in Slots : Dispatch(s)
    \/ \E s \in Slots, i \in 1..MaxCalls : StartCall(s, i)
    \/ \E s \in Slots, i \in 1..MaxCalls : UploadOk(s, i)
    \/ \E s \in Slots, i \in 1..MaxCalls : UploadFails(s, i)
    \/ \E s \in Slots, i \in 1..MaxCalls : UploadRaises(s, i)
    \/ \E s \in Slots, i \in 1..MaxCalls : RemoveRow(s, i)
    \/ \E s \in Slots, i \in 1..MaxCalls : RemoveConnectFail(s, i)
    \/ \E s \in Slots, i \in 1..MaxCalls : RemoveFolder(s, i)
    \/ \E s \in Slots : StarmapReturn(s)

Spec == Init /\ [][Next]_vars

\* from here on the store is reachable and the platform accepts every upload
Heal ==
    /\ ~healthy
    /\ healthy' = TRUE
    /\ UNCHANGED <<tasks, folders, poolSize, cyc, inserted, confirmed, rowGone, folderGone,
                   recorder, failedUploads>>
    /\ UNCHANGED procVars

\* the dispatcher with failures that stop for good at some point
NextLive ==
    \/ \E j \in Jobs, s \in Slots : Fire(j, s)
    \/ \E p \in 1..LivePaths, st \in Statuses : Insert(p, st)
    \/ Heal
    \/ \E s \in Slots : Snapshot(s)
    \/ \E s \in Slots : ~healthy /\ ConnectFail(s)
    \/ \E s \in Slots : Dispatch(s)
    \/ \E s \in Slots, i \in 1..MaxCalls : StartCall(s, i)
    \/ \E s \in Slots, i \in 1..MaxCalls : UploadOk(s, i)
    \/ \E s \in Slots, i \in 1..MaxCalls : ~healthy /\ UploadFails(s, i)
    \/ \E s \in Slots, i \in 1..MaxCalls : ~healthy /\ UploadRaises(s, i)
    \/ \E s \in Slots, i \in 1..MaxCalls : RemoveRow(s, i)
    \/ \E s \in Slots, i \in 1..MaxCalls : ~healthy /\ RemoveConnectFail(s, i)
    \/ \E s \in Slots, i \in 1..MaxCalls : RemoveFolder(s, i)
    \/ \E s \in Slots : StarmapReturn(s)

\* the Scheduler keeps firing the job, the store answers a connection attempt,
\* and every pool thread and every call in it keeps running
Fairness ==
    /\ WF_vars(\E j \in Jobs, s \in Slots : Fire(j, s))
    /\ WF_vars(\E s \in Slots : Snapshot(s))
    /\ WF_vars(\E s \in Slots : Dispatch(s))
    /\ WF_vars(\E s \in Slots, i \in 1..MaxCalls : StartCall(s, i))
    /\ WF_vars(\E s \in Slots, i \in 1..MaxCalls : UploadOk(s, i))
    /\ WF_vars(\E s \in Slots, i \in 1..MaxCalls : RemoveRow(s, i))
    /\ WF_vars(\E s \in Slots, i \in 1..MaxCalls : RemoveFolder(s, i))
    /\ WF_vars(\E s \in Slots : StarmapReturn(s))

SpecLive == Init /\ [][NextLive]_vars /\ Fairness

\* a restart on a single-CPU host with BatchLen processed tasks left in the store
InitBatch ==
    /\ tasks = [i \in 1..BatchLen |->
                  [store_path |-> i, share_list |-> ShareListOf(i), status |-> "processed"]]
    /\ folders = 1..BatchLen
    /\ inserted = 1..BatchLen
    /\ healthy = FALSE
    /\ failedUploads = {}
    /\ recorder = NoDuplicates
    /\ cyc = [s \in Slots |-> IdleFrame]
    /\ confirmed = {}
    /\ rowGone = {}
    /\ folderGone = {}
    /\ poolSize = 1
    /\ lockOwner = 1
    /\ proc = [p \in Procs |->
                IF p = 1
                THEN [FreshProc EXCEPT !.pc = "running", !.guard = "held",
                                       !.log = Append(InitSteps(FALSE), "Scheduler.start"),
                                       !.registry = {<<j, 1>> : j \in Jobs},
                                       !.built[1] = "ok"]
                ELSE [FreshProc EXCEPT !.pc = "exited", !.guard = "failed",
                                       !.status = ExitStatus(-1)]]

NextBatch ==
    \/ \E j \in Jobs, s \in Slots : Fire(j, s)
    \/ \E s \in Slots : Snapshot(s)
    \/ \E s \in Slots : ConnectFail(s)
    \/ \E s \in Slots : Dispatch(s)
    \/ \E s \in Slots, i \in 1..MaxCalls : StartCall(s, i)
    \/ \E s \in Slots, i \in 1..MaxCalls : UploadOk(s, i)
    \/ \E s \in Slots, i \in 1..MaxCalls : UploadFails(s, i)
    \/ \E s \in Slots, i \in 1..MaxCalls : UploadRaises(s, i)
    \/ \E s \in Slots, i \in 1..MaxCalls : RemoveRow(s, i)
    \/ \E s \in Slots, i \in 1..MaxCalls : RemoveConnectFail(s, i)
    \/ \E s \in Slots, i \in 1..MaxCalls : RemoveFolder(s, i)
    \/ \E s \in Slots : StarmapReturn(s)

SpecBatch == InitBatch /\ [][NextBatch]_vars

\* processes launched against the same lock resource, possibly left stale
InitStartup ==
    /\ InitDisp
    /\ poolSize = 1
    /\ lockOwner \in {0, NumProcs + 1}
    /\ proc = [p \in Procs |-> FreshProc]

NextStartup ==
    \/ \E p \in Procs : Acquire(p)
    \/ \E p \in Procs : GuardFail(p)
    \/ \E p \in Procs, first \in BOOLEAN : InitStep(p, first)
    \/ \E p \in Procs : Start(p)
    \/ \E p \in Procs : Crash(p)
    \/ \E p \in Procs : Shutdown(p)

SpecStartup == InitStartup /\ [][NextStartup]_vars

\* start-up followed by the construction of one Uploader per platform
NextPlatforms ==
    \/ \E p \in Procs : Acquire(p)
    \/ \E p \in Procs : GuardFail(p)
    \/ \E p \in Procs, first \in BOOLEAN : InitStep(p, first)
    \/ \E p \in Procs, pl \in Platforms : Construct(p, pl)
    \/ \E p \in Procs : Start(p)
    \/ \E p \in Procs : Crash(p)
    \/ \E p \in Procs : Shutdown(p)

SpecPlatforms == InitStartup /\ [][NextPlatforms]_vars

\* ------------------------------------------------------------- properties
Calls == UNION {{<<s, i>> : i \in DOMAIN cyc[s].w} : s \in Slots}
ExecutingFor(p) ==
    {c \in Calls : cyc[c[1]].w[c[2]] \in Executing /\ PathOf(c[1], c[2]) = p}

\* C1: in every reachable state, for every store_path, at most one upload
\* invocation for that store_path is executing.
NoDuplicateUpload == \A p \in inserted : Cardinality(ExecutingFor(p)) <= 1

\* C1 witness: a second firing has two uploads of different folders in flight
\* while an earlier firing already removed a task.
TwoUploadsInFlight ==
    /\ rowGone /= {}
    /\ \E s \in Slots : \E i, k \in DOMAIN cyc[s].w :
          /\ i /= k
          /\ cyc[s].w[i] = "upload"
          /\ cyc[s].w[k] = "upload"

\* C2 (as claimed): once a task's upload call has returned from _remove its row
\* and its folder are both absent, and no state shows exactly one of the two
\* (row, folder) removed.
CleanupNeverTorn ==
    /\ \A c \in Calls : cyc[c[1]].w[c[2]] = "ok" =>
          /\ PathOf(c[1], c[2]) \notin RowPaths(tasks)
          /\ PathOf(c[1], c[2]) \notin folders
    /\ \A p \in inserted : (p \in RowPaths(tasks)) <=> (p \in folders)

\* C3: no row is deleted or updated and no folder is removed for a task whose
\* upload has not been confirmed, and the dispatcher's own steps (connect,
\* snapshot, building the pool) touch no row and no folder.
MutationOnlyAfterConfirm ==
    /\ rowGone \cup folderGone \subseteq confirmed
    /\ \A s \in Slots :
          /\ cyc[s].touched \subseteq confirmed
          /\ cyc[s].w = <<>> => cyc[s].touched = {}

\* C3 witness: one task was cleaned up after its confirmed upload while the row
\* and folder of another, unconfirmed one, are still there.
CleanedOneKeptOther ==
    \E p, q \in inserted :
        /\ p \in rowGone /\ p \in folderGone
        /\ q \notin confirmed /\ q \in RowPaths(tasks) /\ q \in folders
        /\ \E s \in Slots : p \in cyc[s].touched /\ q \in RowPaths(cyc[s].tasks_list)

\* C4: in a batch, a task whose upload call succeeded is gone (row and folder),
\* and a task whose call failed keeps the row as it was read (status processed)
\* and its folder, whatever the interleaving of the workers.
BatchOutcome ==
    \A c \in Calls :
        LET st == cyc[c[1]].w[c[2]]
            row == cyc[c[1]].tasks_list[c[2]]
        IN  /\ st = "ok" => row.store_path \notin RowPaths(tasks) /\ row.store_path \notin folders
            /\ st \in {"failed", "raised"} =>
                  /\ row \in Rows(tasks)
                  /\ row.status = "processed"
                  /\ row.store_path \in folders

\* C4 witness: a batch of two is over: A succeeded, B failed.
OneOkOneFailed ==
    \E s \in Slots :
        /\ Len(cyc[s].w) = 2
        /\ \E i, k \in DOMAIN cyc[s].w :
              /\ cyc[s].w[i] = "ok"
              /\ cyc[s].w[k] \in {"failed", "raised"}
              /\ cyc[s].error \in {"none", "UploadError"}

\* C5: a firing whose snapshot connection failed has logged a warning, returned
\* normally, submitted nothing to the pool and touched no row and no folder.
ConnectFailureIsQuiet ==
    \A s \in Slots : cyc[s].warned =>
        /\ cyc[s].pc = "idle"
        /\ cyc[s].exit = "normal"
        /\ cyc[s].error = "none"
        /\ cyc[s].upload_pool = <<>>
        /\ cyc[s].w = <<>>
        /\ cyc[s].touched = {}

\* C5 witness: the connection failed while processed tasks were waiting.
ConnectFailedWithWork ==
    \E s \in Slots :
        /\ cyc[s].warned
        /\ GetFolders(tasks) /= <<>>
        /\ RowPaths(tasks) \subseteq folders

\* C6 (as claimed): a Task Store connection failure anywhere in a dispatch
\* cycle, a worker's _remove included, is swallowed: begin_uploads returns
\* normally to the Scheduler and the task is still in the store.
StoreFailureNeverEscalates ==
    \A s \in Slots : (cyc[s].pc = "idle" /\ cyc[s].error = "DBException") =>
        cyc[s].exit = "normal"

\* C7: no start-up step of a process has run unless its SingleInstance() call
\* succeeded, and a process whose acquisition failed has exited with a non-zero
\* status having run none of them.
GuardFirst ==
    \A p \in Procs :
        /\ proc[p].log /= <<>> => proc[p].guard = "held"
        /\ proc[p].pc = "running" => proc[p].guard = "held"
        /\ proc[p].guard = "failed" =>
              /\ proc[p].pc = "exited"
              /\ proc[p].status /= 0
              /\ proc[p].log = <<>>

\* C7 witness: one process is initialised and started, another was refused and
\* left with status 255.
StartedAndRefused ==
    \E p, q \in Procs :
        /\ proc[p].pc = "running"
        /\ proc[p].log = Append(InitSteps(proc[p].first), "Scheduler.start")
        /\ proc[q].guard = "failed"
        /\ proc[q].status = 255

Holders == {p \in Procs : proc[p].guard = "held"}

\* C8: at most one live process holds the guard; an attempt fails only against
\* a live holder (never against a stale lock) and the refused process exits
\* with a non-zero status; when every process has attempted and no holder has
\* died or shut down, exactly one attempt succeeded.
SingleGuardHolder ==
    /\ Cardinality({p \in Holders : Alive(p)}) <= 1
    /\ \A p \in Procs : proc[p].guard = "failed" =>
          /\ proc[p].blockedByLive
          /\ proc[p].pc = "exited"
          /\ proc[p].status /= 0
    /\ (\A p \in Procs : proc[p].guard /= "pending" /\ (p \in Holders => Alive(p)))
          => Cardinality(Holders) = 1

\* C8 witness: of two attempts one holds the lock, before any of its start-up
\* steps, and the other was refused and has exited.
OneWinsOneRefused ==
    \E p, q \in Procs :
        /\ lockOwner = p
        /\ proc[p].guard = "held" /\ Alive(p)
        /\ proc[q].guard = "failed" /\ proc[q].pc = "exited"
        /\ proc[p].log = <<>>

\* C9: at most one invocation of a given job is active in any state.
NoOverlappingFirings ==
    \A j \in Jobs : Cardinality({s \in Slots : Active(s) /\ cyc[s].job = j}) <= 1

\* C9 witness: run_uploader is fired again after an earlier firing of it
\* finished its batch.
FiredAgain ==
    \E s \in Slots :
        /\ cyc[s].pc = "connect"
        /\ cyc[s].job = "run_uploader"
        /\ folderGone /= {}

\* C10 (as claimed): when begin_uploads has returned, every task of its
\* snapshot had its upload function invoked and finished.
DispatchIsBarrier ==
    \A s \in Slots : (cyc[s].pc = "idle" /\ cyc[s].exit /= "none") =>
        /\ cyc[s].unattempted = {}
        /\ cyc[s].unfinished = {}

\* C11: no listing returns a row that a completed earlier removal had deleted,
\* and the snapshot a firing holds still has the rows its workers have deleted
\* since.
SnapshotIsolation ==
    \A s \in Slots :
        /\ cyc[s].audit.gone = {}
        /\ \A i \in DOMAIN cyc[s].w : cyc[s].w[i] \in {"remove_fs", "ok"} =>
              /\ i \in DOMAIN cyc[s].tasks_list
              /\ cyc[s].tasks_list[i].store_path = PathOf(s, i)
              /\ PathOf(s, i) \notin RowPaths(tasks)

\* C11 witness: a listing made after a removal returned rows, and a worker of
\* that firing has deleted one of them since.
ListedAfterRemoval ==
    \E s \in Slots : \E i \in DOMAIN cyc[s].w :
        /\ cyc[s].w[i] = "remove_fs"
        /\ Len(cyc[s].tasks_list) >= 2
        /\ \E p \in rowGone : p \notin RowPaths(cyc[s].tasks_list)

\* C13: a store_path has at most one row, a duplicate insertion changed
\* nothing, and no snapshot holds a store_path twice.
UniqueStorePath ==
    /\ Cardinality(RowPaths(tasks)) = Len(tasks)
    /\ ~recorder.changed
    /\ \A s \in Slots : Cardinality(RowPaths(cyc[s].tasks_list)) = Len(cyc[s].tasks_list)

\* C13 witness: a duplicate insertion was refused and a later snapshot holds
\* two tasks.
DuplicateRefused ==
    /\ recorder.refused
    /\ \E s \in Slots : cyc[s].pc = "fetched" /\ Len(cyc[s].tasks_list) >= 2

\* C12 (as claimed): two Uploaders constructed for distinct platforms on one
\* Scheduler both registered, under distinct job names, and each job is still
\* registered.
PerPlatformJobs ==
    \A p \in Procs : \A a, b \in Platforms :
        (a /= b /\ proc[p].built[a] /= "none" /\ proc[p].built[b] /= "none") =>
            /\ proc[p].built[a] = "ok"
            /\ proc[p].built[b] = "ok"
            /\ \E ea, eb \in proc[p].registry :
                  ea[2] = a /\ eb[2] = b /\ ea[1] /= eb[1]

\* the status of the row of store_path p in table tbl
StatusOf(tbl, p) == (CHOOSE r \in Rows(tbl) : r.store_path = p).status

\* C14: no step changes the status of a row that survives it; every listing
\* returns all the processed rows, those of failed uploads included; and the
\* row and the folder of a task whose upload failed stay, the row as processed.
StatusNeverChanges ==
    /\ [](\A s \in Slots :
            /\ cyc[s].audit.missed = {}
            /\ \A i \in DOMAIN cyc[s].w : cyc[s].w[i] = "failed" =>
                  /\ PathOf(s, i) \in RowPaths(tasks)
                  /\ StatusOf(tasks, PathOf(s, i)) = "processed"
                  /\ PathOf(s, i) \in folders)
    /\ [][\A p \in RowPaths(tasks) \cap RowPaths(tasks') :
             StatusOf(tasks', p) = StatusOf(tasks, p)]_vars

\* C14 witness: a later firing lists again, still as processed, a task whose
\* upload failed in an earlier firing
FailedTaskRelisted ==
    \E s \in Slots :
        /\ cyc[s].pc = "fetched"
        /\ \E p \in failedUploads \cap RowPaths(cyc[s].tasks_list) :
              StatusOf(tasks, p) = "processed"

InFlight == {c \in Calls : cyc[c[1]].w[c[2]] \in Executing}

\* C17: over all firings, the upload calls executing at the same time are never
\* more than the threads of POOL.
PoolBound == Cardinality(InFlight) <= poolSize

\* C17 witness: a pool of two threads is full and a third call of the batch waits
PoolFullOneWaiting ==
    /\ poolSize = 2
    /\ Cardinality(InFlight) = poolSize
    /\ \E c \in Calls : cyc[c[1]].w[c[2]] = "queued"

\* C19: a folder is deleted only by a step that finds its row already deleted,
\* so a folder that is gone has no row; and a call that raised after its upload
\* was confirmed (the connection of _remove failed) left the row and the folder.
RowBeforeFolder ==
    /\ [](/\ folderGone \subseteq rowGone
          /\ \A p \in inserted : p \notin folders => p \notin RowPaths(tasks)
          /\ \A c \in Calls :
                (cyc[c[1]].w[c[2]] = "raised" /\ PathOf(c[1], c[2]) \in confirmed) =>
                    /\ PathOf(c[1], c[2]) \in RowPaths(tasks)
                    /\ PathOf(c[1], c[2]) \in folders)
    /\ [][\A p \in folders \ folders' : p \notin RowPaths(tasks)]_vars

\* C19 witness: in one batch a call removed row and folder and another call,
\* its upload confirmed, raised the DBException of _remove
RemovedOneRaisedOther ==
    \E s \in Slots : \E i, k \in DOMAIN cyc[s].w :
        /\ cyc[s].w[i] = "ok"
        /\ PathOf(s, i) \in folderGone
        /\ cyc[s].w[k] = "raised"
        /\ PathOf(s, k) \in confirmed \ failedUploads
        /\ cyc[s].error = "DBException"

\* C18: once the listing is over, on either path, the dispatcher of a firing has
\* no open connection, so none while its batch is in the pool; and a worker that
\* has left the with block of _remove, or never entered it, has none either, so
\* none is open when it deletes the folder.
ConnectionsScoped ==
    \A s \in Slots :
        /\ cyc[s].pc \in {"idle", "fetched", "starmap"} =>
              <<"dispatcher", 0>> \notin cyc[s].conns
        /\ \A i \in DOMAIN cyc[s].w : <<"worker", i>> \notin cyc[s].conns

\* C18 witness: a firing listed two tasks and handed them to the pool; one worker
\* has left the with block of _remove and not yet deleted the folder, the other
\* is still uploading
BetweenRowAndFolder ==
    \E s \in Slots : \E i, k \in DOMAIN cyc[s].w :
        /\ cyc[s].pc = "starmap"
        /\ cyc[s].w[i] = "remove_fs"
        /\ cyc[s].w[k] = "upload"
        /\ PathOf(s, i) \notin RowPaths(tasks)
        /\ PathOf(s, i) \in folders

\* the store holds a processed row for store_path p
Pending(p) == \E r \in Rows(tasks) : r.store_path = p /\ r.status = "processed"

====
